---- MODULE Spec2Model ----
(***************************************************************************)
(* Model of lemur/plugins/lemur_acme/plugin.py: the ACME DNS-01 issuer     *)
(* plugin.  One run is one or more invocations of one entry point of       *)
(* ACMEIssuerPlugin (create_certificate, get_ordered_certificate,          *)
(* get_ordered_certificates).  Every call to an external collaborator (the *)
(* ACME CA, the DNS provider, the authorization service) is one step whose *)
(* outcome (return or raise) is chosen by the environment.                 *)
(***************************************************************************)
EXTENDS Bags, FiniteSets, Integers, Sequences, TLC

\* ------------------------------------------------------------------ bounds
MaxCerts == 2
MaxDomains == 2
MaxResolves == 2
MaxAltNames == 2

\* request_certificate, line 99
max_attempts == 10

\* ------------------------------------------------------------------ values
None == [type |-> "None"]
False == [type |-> "False"]
NoExc == [type |-> "none", from |-> "none", context |-> "none"]
NoResult == [kind |-> "none"]

\* an exception of class t raised by f; context is the origin of the exception
\* that was being handled when this one was raised (Python's __context__)
Exc(t, f) == [type |-> t, from |-> f, context |-> "none"]
ExcDuring(t, f, held) == [type |-> t, from |-> f, context |-> held.from]
Returned(v) == [kind |-> "returned", value |-> v]
Raised(e) == [kind |-> "raised", exc |-> e]

\* a host name held as a str, and one held as an x509 name object with .value
Str(h) == [type |-> "str", value |-> h]
GeneralName(h) == [type |-> "GeneralName", value |-> h]

\* the host names a certificate may be requested for
Hosts == {1, 2}

\* the longest domain list of a request: the stored list of an order, or the
\* common name with its subject alternative names
MaxListed == IF MaxAltNames + 1 > MaxDomains THEN MaxAltNames + 1 ELSE MaxDomains

\* str(pending_cert.external_id): the decimal text of the identifier
StrOfId(n) == IF n = 1 THEN "1" ELSE IF n = 2 THEN "2" ELSE IF n = 3 THEN "3" ELSE "4"

\* ------------------------------------------------------------------ inputs
\* authority.options: empty, text that is not JSON, a JSON list of name/value
\* pairs without acme_url, a JSON list with acme_url
AuthorityOptions == {"unset", "malformed", "no_acme_url", "valid"}
\* provider_type of a DNS provider row: a provider module (dyn is treated as
\* cloudflare is), the provider module whose errors are ClientErrors, the name
\* of another module of the plugin's package, a name that is no module
ProviderTypes == {"cloudflare", "route53", "plugin", "gandi"}

\* order_info.domains as stored by the authorization service: str values
OrderDomains == { [d \in 1..n |-> Str(d)] : n \in 1..MaxDomains }

\* the authorities of the rows of a batch: without options, or well-formed
BatchAuthorityOptions == {"unset", "valid"}

\* the pending certificates of a call: distinct rows, each with its authority
PendingCertLists(n, authorities) ==
    UNION { { pcs \in [1..m -> [external_id : 1..m, authority : authorities]] :
                \A x \in 1..m : pcs[x].external_id = x } : m \in 1..n }

Credentials ==
    { [json |-> FALSE, account_id |-> None],
      [json |-> TRUE, account_id |-> None],
      [json |-> TRUE, account_id |-> Str("")],
      [json |-> TRUE, account_id |-> Str("123")] }

SubAltNames ==
    UNION { [1..n -> { GeneralName(h) : h \in Hosts }] : n \in 0..MaxAltNames }

IssuerOptions ==
    [ authority : AuthorityOptions,
      create_immediately : {"absent", "False", "True"},
      dns_provider : {None} \cup [ provider_type : ProviderTypes, credentials : Credentials ],
      common_name : { Str(h) : h \in Hosts },
      extensions : {None} \cup { [sub_alt_names |-> s] : s \in SubAltNames } ]

\* the challenge combinations a CA offers for one domain
Combinations ==
    { << <<"dns-01">> >>,
      << <<"http-01">> >>,
      << <<"http-01">>, <<"dns-01">> >>,
      << <<"dns-01">>, <<"dns-01">> >>,
      << <<"dns-01", "http-01">> >> }

VARIABLES
    op,               \* the entry point invoked
    issuer_options,   \* create_certificate's argument
    pending_certs,    \* get_ordered_certificate(s)'s argument, as a list
    pc,               \* position in the code
    pending_cert,     \* index of the pending certificate being orchestrated
    domains,          \* the domain list of the current request
    account_number,
    dns_provider_type,
    k,                \* index of the domain / record of the running loop
    authz,            \* combinations of the last request_domain_challenges
    authorizations,   \* AuthorizationRecords of the current request
    exc,              \* the exception in flight
    pending,          \* batch: successfully orchestrated entries
    entry,            \* batch: index into pending
    certs,            \* batch: outcome records
    result,           \* what the invocation returned or raised
    calls,            \* bag of the external calls made for the current request
    prior,            \* bag of the TXT records created by earlier resolutions
    txt_records,      \* change ids of the TXT records present at the provider
    dns_authorizations, \* records held by the authorization service
    resolves,         \* number of invocations started
    attempts          \* polls made for the authorization being polled

vars == << op, issuer_options, pending_certs, pc, pending_cert, domains,
           account_number, dns_provider_type, k, authz, authorizations, exc,
           pending, entry, certs, result, calls, prior, txt_records,
           dns_authorizations, resolves, attempts >>

inputs == << op, issuer_options, pending_certs >>
locals == << domains, account_number, dns_provider_type, k, authz, authorizations, attempts >>
batch == << pending_cert, entry, pending, certs >>
env == << prior, txt_records, dns_authorizations, resolves >>

\* ------------------------------------------------------------ pure helpers
find_first_combination(a) == IF a = <<>> THEN <<>> ELSE << a[1] >>

\* find_dns_challenge: the combinations that are a single DNS-01 challenge
IsDns01Combo(combo) == Len(combo) = 1 /\ combo[1] = "dns-01"
find_dns_challenge(a) == SelectSeq(a, IsDns01Combo)

\* the record keeps the identity of the CA's authorization, not its body
AuthorizationRecord(host, a, dns_challenge, change_id) ==
    [host |-> host, authz |-> a, dns_challenge |-> dns_challenge, change_id |-> change_id]

get_domains_names_reversed(options) ==
    IF options.extensions = None
    THEN << options.common_name >>
    ELSE << options.common_name >> \o
         [ x \in 1..Len(options.extensions.sub_alt_names) |->
              options.extensions.sub_alt_names[Len(options.extensions.sub_alt_names) + 1 - x] ]

\* get_domains: the common name followed by the subject alternative names
get_domains(options) ==
    IF options.extensions = None
    THEN << options.common_name >>
    ELSE << options.common_name >> \o options.extensions.sub_alt_names

authz_domains_unflattened(ds) == ds

\* create_certificate, lines 342-347: str entries are kept, others give .value
authz_domains(ds) ==
    [x \in 1..Len(ds) |-> IF ds[x].type = "str" THEN ds[x] ELSE Str(ds[x].value)]

\* get_dns_provider: the provider modules known to the plugin
provider_types == {"cloudflare", "dyn", "route53"}

\* the modules a relative import inside the package lemur_acme finds: the
\* providers imported at line 31 and plugin.py itself
package_modules == provider_types \cup {"plugin"}

TruthyNotNone(v) == v # None

\* Python truthiness of an account number: None and "" are false
Truthy(v) == v # None /\ v.value # ""

Pem(t) == [type |-> "pem", value |-> t]
Id(n) == [type |-> "id", value |-> n]

Failed(ix) == [cert |-> False, pending_cert |-> ix]
Cert(ix) ==
    [ body |-> Pem("pem_certificate"), chain |-> Pem("pem_certificate_chain"),
      external_id |-> StrOfId(pending_certs[ix].external_id) ]

\* ------------------------------------------------------------ control flow
SetupPcs == {"setup_options", "directory", "register", "agree_to_tos"}
ResolvePcs == {"authorization_get", "dns_provider_get", "get_dns_provider"}
CreatePcs == {"dns_provider_check", "credentials", "import", "route53_check",
              "domains", "authorization_create"}
GetAuthorizationsPcs == {"request_domain_challenges", "create_txt_record", "get_authorizations_return"}
OrchestrationPcs == SetupPcs \cup ResolvePcs \cup GetAuthorizationsPcs
FinalizeTryPcs == {"wait_for_dns_change", "simple_verify", "answer_challenge"}
FinalizePcs == FinalizeTryPcs \cup {"delete_txt_record", "finalize_exit"}
RequestPcs == {"poll_and_request_issuance", "fetch_chain", "build_cert"}

\* the positions inside the loop over pending (lines 285-313)
SecondLoopPcs == FinalizePcs \cup RequestPcs \cup {"except_finalization", "hung"}

IsBatch == op = "get_ordered_certificates"

CurCertStale == pending_cert

\* the pending certificate (index) the running code works for
CurCert ==
    IF IsBatch /\ pc \in SecondLoopPcs
    THEN pending[entry].pending_cert
    ELSE pending_cert

Authority ==
    IF op = "create_certificate" THEN issuer_options.authority
    ELSE pending_certs[pending_cert].authority

Event(fn, c, d) == [fn |-> fn, cert |-> c, dom |-> d]
Call(fn, d) == calls' = calls (+) SetToBag({Event(fn, CurCert, d)})
NoCall == calls' = calls
Count(fn, c, d) == CopiesIn(Event(fn, c, d), calls)

\* the TXT records the AuthorizationRecords of list a stand for
Creations(a) ==
    SetToBag({ Event("create_txt_record", a[r].authz[1], a[r].authz[2]) : r \in 1..Len(a) })

\* what a failing call of the DNS provider raises: botocore's ClientError
\* comes from the route53 module only
DnsErrors ==
    IF dns_provider_type.value = "route53" THEN {"ClientError", "Exception"}
    ELSE {"Exception"}

\* plain step to position p
Step(p) ==
    /\ pc' = p
    /\ exc' = exc
    /\ result' = result

RaiseCatchAll(e) ==
    IF IsBatch
    THEN /\ pc' = IF pc \in OrchestrationPcs THEN "except_orchestration"
                  ELSE "except_finalization"
         /\ exc' = e
         /\ result' = result
    ELSE IF op = "get_ordered_certificate"
         THEN /\ pc' = "done"
              /\ exc' = NoExc
              /\ result' = Returned(False)
         ELSE /\ pc' = "done"
              /\ exc' = NoExc
              /\ result' = Raised(e)

\* exception e leaves the function that raised it and reaches the entry point:
\* the batch catches it (lines 278, 308), the single resolution catches a
\* ClientError of get_authorizations (line 245), anything else propagates
Raise(e) ==
    IF IsBatch
    THEN /\ pc' = IF pc \in OrchestrationPcs THEN "except_orchestration"
                  ELSE "except_finalization"
         /\ exc' = e
         /\ result' = result
    ELSE IF /\ op = "get_ordered_certificate"
            /\ pc \in GetAuthorizationsPcs
            /\ e.type = "ClientError"
         THEN /\ pc' = "done"
              /\ exc' = NoExc
              /\ result' = Returned(False)
         ELSE /\ pc' = "done"
              /\ exc' = NoExc
              /\ result' = Raised(e)

ResetLocals ==
    /\ domains' = <<>>
    /\ account_number' = None
    /\ dns_provider_type' = None
    /\ k' = 1
    /\ authz' = <<>>
    /\ authorizations' = <<>>
    /\ attempts' = 0

\* batch, line 285: the loop over pending takes entry e
EnterEntry(pend, e) ==
    /\ pc' = "wait_for_dns_change"
    /\ result' = result
    /\ entry' = e
    /\ authorizations' = pend[e].authorizations
    /\ account_number' = pend[e].account_number
    /\ dns_provider_type' = pend[e].dns_provider_type
    /\ k' = 1
    /\ domains' = <<>>
    /\ authz' = <<>>
    /\ attempts' = 0

NextPendingCertInterleaved(crts, pend) ==
    /\ certs' = crts
    /\ pending' = pend
    /\ exc' = NoExc
    /\ calls' = EmptyBag
    /\ IF pending_cert < Len(pending_certs) /\ pend = <<>>
       THEN /\ pending_cert' = pending_cert + 1
            /\ pc' = "setup_options"
            /\ entry' = entry
            /\ result' = result
            /\ ResetLocals
       ELSE /\ pending_cert' = pending_cert
            /\ IF pend = <<>>
               THEN /\ pc' = "done"
                    /\ result' = Returned(crts)
                    /\ entry' = entry
                    /\ ResetLocals
               ELSE EnterEntry(pend, 1)

\* batch, line 262: the loop over pending_certs moves on; after the last
\* pending certificate the loop over pending starts (or certs is returned)
NextPendingCert(crts, pend) ==
    /\ certs' = crts
    /\ pending' = pend
    /\ exc' = NoExc
    /\ calls' = EmptyBag
    /\ IF pending_cert < Len(pending_certs)
       THEN /\ pending_cert' = pending_cert + 1
            /\ pc' = "setup_options"
            /\ entry' = entry
            /\ result' = result
            /\ ResetLocals
       ELSE /\ pending_cert' = pending_cert
            /\ IF pend = <<>>
               THEN /\ pc' = "done"
                    /\ result' = Returned(crts)
                    /\ entry' = entry
                    /\ ResetLocals
               ELSE EnterEntry(pend, 1)

\* batch, line 285: the loop over pending moves on, line 314 returns certs
NextEntry(crts) ==
    /\ certs' = crts
    /\ pending' = pending
    /\ pending_cert' = pending_cert
    /\ exc' = NoExc
    /\ calls' = EmptyBag
    /\ IF entry < Len(pending)
       THEN EnterEntry(pending, entry + 1)
       ELSE /\ pc' = "done"
            /\ result' = Returned(crts)
            /\ entry' = entry
            /\ ResetLocals

\* --------------------------------------------------------------- Init
Init ==
    /\ op \in {"create_certificate", "get_ordered_certificate", "get_ordered_certificates"}
    /\ issuer_options \in IF op = "create_certificate" THEN IssuerOptions ELSE {None}
    /\ pending_certs \in IF op = "create_certificate" THEN {<<>>}
                         ELSE IF op = "get_ordered_certificate"
                              THEN PendingCertLists(1, AuthorityOptions)
                         ELSE PendingCertLists(MaxCerts, BatchAuthorityOptions)
    /\ pc = "setup_options"
    /\ pending_cert = 1
    /\ domains = <<>>
    /\ account_number = None
    /\ dns_provider_type = None
    /\ k = 1
    /\ authz = <<>>
    /\ authorizations = <<>>
    /\ exc = NoExc
    /\ pending = <<>>
    /\ entry = 1
    /\ certs = <<>>
    /\ result = NoResult
    /\ calls = EmptyBag
    /\ prior = EmptyBag
    /\ txt_records = {}
    /\ dns_authorizations = <<>>
    /\ resolves = 1
    /\ attempts = 0

\* ------------------------------------------------- setup_acme_client
SetupOptionsUnchecked ==
    /\ pc = "setup_options"
    /\ IF Authority = "malformed"
       THEN Raise(Exc("ValueError", "setup_acme_client"))
       ELSE Step("directory")
    /\ NoCall
    /\ UNCHANGED << inputs, locals, batch, env >>

\* lines 117-125: the authority's options are checked and parsed; a missing
\* acme_url is replaced by the configured ACME_DIRECTORY_URL
SetupOptions ==
    /\ pc = "setup_options"
    /\ IF Authority = "unset"
       THEN Raise(Exc("InvalidAuthority", "setup_acme_client"))
       ELSE IF Authority = "malformed"
            THEN Raise(Exc("ValueError", "setup_acme_client"))
            ELSE Step("directory")
    /\ NoCall
    /\ UNCHANGED << inputs, locals, batch, env >>

\* line 130: Client(directory_url, key) contacts the directory
Directory ==
    /\ pc = "directory"
    /\ \/ Step("register")
       \/ Raise(Exc("AcmeError", "directory"))
    /\ Call("directory", 0)
    /\ UNCHANGED << inputs, locals, batch, env >>

\* lines 132-134: client.register
Register ==
    /\ pc = "register"
    /\ \/ Step("agree_to_tos")
       \/ Raise(Exc("AcmeError", "register"))
    /\ Call("register", 0)
    /\ UNCHANGED << inputs, locals, batch, env >>

\* lines 138-139: client.agree_to_tos, then back in the entry point
AgreeToTos ==
    /\ pc = "agree_to_tos"
    /\ \/ Step(IF op = "create_certificate" THEN "dns_provider_check" ELSE "authorization_get")
       \/ Raise(Exc("AcmeError", "agree_to_tos"))
    /\ Call("agree_to_tos", 0)
    /\ UNCHANGED << inputs, locals, batch, env >>

\* ------------------------------- get_ordered_certificate(s), lines 239-241
\* line 239 / 265: authorization_service.get(pending_cert.external_id) gives
\* the stored account number and domains
AuthorizationGet ==
    /\ pc = "authorization_get"
    /\ \/ /\ Step("dns_provider_get")
          /\ domains' \in OrderDomains
          /\ account_number' = Str("123")
       \/ /\ Raise(Exc("Exception", "authorization_service.get"))
          /\ UNCHANGED << domains, account_number >>
    /\ Call("authorization_service.get", 0)
    /\ UNCHANGED << inputs, dns_provider_type, k, authz, authorizations, batch, env, attempts >>

\* line 240 / 266: dns_provider_service.get(pending_cert.dns_provider_id)
\* gives the provider row; its provider_type is kept until line 241 / 267
DnsProviderGet ==
    /\ pc = "dns_provider_get"
    /\ \/ /\ Step("get_dns_provider")
          /\ dns_provider_type' \in { Str(t) : t \in ProviderTypes }
       \/ /\ Raise(Exc("Exception", "dns_provider_service.get"))
          /\ UNCHANGED dns_provider_type
    /\ Call("dns_provider_service.get", 0)
    /\ UNCHANGED << inputs, domains, account_number, k, authz, authorizations, batch, env, attempts >>

\* lines 226-235 (called at 241 / 267): get_dns_provider
get_dns_provider ==
    /\ pc = "get_dns_provider"
    /\ IF dns_provider_type.value \in provider_types
       THEN Step("request_domain_challenges")
       ELSE Raise(Exc("UnknownProvider", "get_dns_provider"))
    /\ NoCall
    /\ UNCHANGED << inputs, locals, batch, env >>

\* ------------------------------- get_authorizations / start_dns_challenge
\* line 53: acme_client.request_domain_challenges(host)
RequestDomainChallenges ==
    /\ pc = "request_domain_challenges"
    /\ \/ /\ Step("create_txt_record")
          /\ authz' \in Combinations
       \/ /\ Raise(Exc("AcmeError", "request_domain_challenges"))
          /\ UNCHANGED authz
    /\ Call("request_domain_challenges", k)
    /\ UNCHANGED << inputs, domains, account_number, dns_provider_type, k,
                    authorizations, batch, env, attempts >>

CreateTxtRecordRetry ==
    /\ pc = "create_txt_record"
    /\ IF Len(find_dns_challenge(authz)) # 1
       THEN /\ Raise(Exc("ValueError", "find_dns_challenge"))
            /\ NoCall
            /\ UNCHANGED << txt_records, authorizations, k >>
       ELSE IF dns_provider_type.value \notin provider_types
       THEN /\ Raise(Exc("AttributeError", "create_txt_record"))
            /\ NoCall
            /\ UNCHANGED << txt_records, authorizations, k >>
       ELSE /\ Call("create_txt_record", k)
            /\ \/ /\ txt_records' = txt_records \cup {<< resolves, CurCert, k >>}
                  /\ authorizations' = Append(authorizations,
                         AuthorizationRecord(domains[k], << CurCert, k >>,
                                             find_dns_challenge(authz)[1],
                                             << resolves, CurCert, k >>))
                  /\ IF k < Len(domains)
                     THEN Step("request_domain_challenges") /\ k' = k + 1
                     ELSE Step("get_authorizations_return") /\ k' = k
               \/ /\ Step("create_txt_record")
                  /\ UNCHANGED << txt_records, authorizations, k >>
    /\ UNCHANGED << inputs, domains, account_number, dns_provider_type, authz, batch,
                    prior, dns_authorizations, resolves, attempts >>

\* lines 55-68 and the loop of 161-163: the DNS-01 challenge is selected, the
\* TXT record is created and the AuthorizationRecord appended; a module that
\* is no provider has no create_txt_record
CreateTxtRecord ==
    /\ pc = "create_txt_record"
    /\ IF Len(find_dns_challenge(authz)) # 1
       THEN /\ Raise(Exc("ValueError", "find_dns_challenge"))
            /\ NoCall
            /\ UNCHANGED << txt_records, authorizations, k >>
       ELSE IF dns_provider_type.value \notin provider_types
       THEN /\ Raise(Exc("AttributeError", "create_txt_record"))
            /\ NoCall
            /\ UNCHANGED << txt_records, authorizations, k >>
       ELSE /\ Call("create_txt_record", k)
            /\ \/ /\ txt_records' = txt_records \cup {<< resolves, CurCert, k >>}
                  /\ authorizations' = Append(authorizations,
                         AuthorizationRecord(domains[k], << CurCert, k >>,
                                             find_dns_challenge(authz)[1],
                                             << resolves, CurCert, k >>))
                  /\ IF k < Len(domains)
                     THEN Step("request_domain_challenges") /\ k' = k + 1
                     ELSE Step("get_authorizations_return") /\ k' = k
               \/ /\ \E t \in DnsErrors : Raise(Exc(t, "create_txt_record"))
                  /\ UNCHANGED << txt_records, authorizations, k >>
    /\ UNCHANGED << inputs, domains, account_number, dns_provider_type, authz, batch,
                    prior, dns_authorizations, resolves, attempts >>

GetAuthorizationsReturnUnfinalized ==
    /\ pc = "get_authorizations_return"
    /\ IF IsBatch
       THEN NextPendingCert(certs, Append(pending,
                    [ authorizations |-> authorizations,
                      account_number |-> account_number,
                      dns_provider_type |-> dns_provider_type,
                      pending_cert |-> pending_cert ]))
       ELSE /\ Step(IF op = "create_certificate" THEN "poll_and_request_issuance"
                    ELSE "wait_for_dns_change")
            /\ k' = 1
            /\ NoCall
            /\ UNCHANGED << domains, account_number, dns_provider_type, authz,
                            authorizations, attempts, batch >>
    /\ UNCHANGED << inputs, env >>

\* line 164, and what the caller does with the list: lines 271-277 (batch),
\* 249 (single), 354 (create_certificate)
GetAuthorizationsReturn ==
    /\ pc = "get_authorizations_return"
    /\ IF IsBatch
       THEN NextPendingCert(certs, Append(pending,
                    [ authorizations |-> authorizations,
                      account_number |-> account_number,
                      dns_provider_type |-> dns_provider_type,
                      pending_cert |-> pending_cert ]))
       ELSE /\ Step("wait_for_dns_change")
            /\ k' = 1
            /\ NoCall
            /\ UNCHANGED << domains, account_number, dns_provider_type, authz,
                            authorizations, attempts, batch >>
    /\ UNCHANGED << inputs, env >>

ExceptOrchestrationAborts ==
    /\ pc = "except_orchestration"
    /\ pc' = "done"
    /\ result' = Raised(exc)
    /\ exc' = NoExc
    /\ NoCall
    /\ UNCHANGED << inputs, locals, batch, env >>

ExceptOrchestrationCleansUp ==
    /\ pc = "except_orchestration"
    /\ NextPendingCert(Append(certs, Failed(pending_cert)), pending)
    /\ txt_records' = txt_records \ { authorizations[r].change_id : r \in 1..Len(authorizations) }
    /\ UNCHANGED << inputs, prior, dns_authorizations, resolves >>

\* batch, lines 278-283: the failure of the orchestration is recorded
ExceptOrchestration ==
    /\ pc = "except_orchestration"
    /\ NextPendingCert(Append(certs, Failed(pending_cert)), pending)
    /\ UNCHANGED << inputs, env >>

\* ------------------------- finalize_authorizations / complete_dns_challenge
\* line 73: dns_provider.wait_for_dns_change; the call may also never return
WaitForDnsChange ==
    /\ pc = "wait_for_dns_change"
    /\ \/ Step("simple_verify") /\ k' = k
       \/ /\ \E t \in DnsErrors : exc' = Exc(t, "wait_for_dns_change")
          /\ pc' = "delete_txt_record"
          /\ result' = result
          /\ k' = 1
       \/ Step("hung") /\ k' = k
    /\ Call("wait_for_dns_change", k)
    /\ UNCHANGED << inputs, domains, account_number, dns_provider_type, authz,
                    authorizations, batch, env, attempts >>

SimpleVerifyIgnored ==
    /\ pc = "simple_verify"
    /\ \/ Step("answer_challenge") /\ k' = k
       \/ /\ exc' = Exc("ValueError", "simple_verify")
          /\ pc' = "answer_challenge"
          /\ result' = result
          /\ k' = k
    /\ Call("simple_verify", k)
    /\ UNCHANGED << inputs, domains, account_number, dns_provider_type, authz,
                    authorizations, batch, env, attempts >>

\* lines 75-84: the response is verified locally
SimpleVerify ==
    /\ pc = "simple_verify"
    /\ \/ Step("answer_challenge") /\ k' = k
       \/ /\ exc' = Exc("ValueError", "simple_verify")
          /\ pc' = "delete_txt_record"
          /\ result' = result
          /\ k' = 1
    /\ Call("simple_verify", k)
    /\ UNCHANGED << inputs, domains, account_number, dns_provider_type, authz,
                    authorizations, batch, env, attempts >>

\* line 86 and the loop of 169-170: acme_client.answer_challenge
AnswerChallenge ==
    /\ pc = "answer_challenge"
    /\ \/ IF k < Len(authorizations)
          THEN Step("wait_for_dns_change") /\ k' = k + 1
          ELSE Step("delete_txt_record") /\ k' = 1
       \/ /\ exc' = Exc("AcmeError", "answer_challenge")
          /\ pc' = "delete_txt_record"
          /\ result' = result
          /\ k' = 1
    /\ Call("answer_challenge", k)
    /\ UNCHANGED << inputs, domains, account_number, dns_provider_type, authz,
                    authorizations, batch, env, attempts >>

\* lines 171-179: the finally block deletes the TXT records in order; an
\* exception of delete_txt_record leaves the loop and replaces the held one
DeleteTxtRecord ==
    /\ pc = "delete_txt_record"
    /\ \/ /\ txt_records' = txt_records \ {authorizations[k].change_id}
          /\ IF k < Len(authorizations)
             THEN Step("delete_txt_record") /\ k' = k + 1
             ELSE Step("finalize_exit") /\ k' = k
       \/ /\ \E t \in DnsErrors :
                exc' = ExcDuring(t, "delete_txt_record", exc)
          /\ pc' = "finalize_exit"
          /\ result' = result
          /\ k' = k
          /\ UNCHANGED txt_records
    /\ Call("delete_txt_record", k)
    /\ UNCHANGED << inputs, domains, account_number, dns_provider_type, authz,
                    authorizations, batch, prior, dns_authorizations, resolves, attempts >>

FinalizeExitSwallows ==
    /\ pc = "finalize_exit"
    /\ pc' = "poll_and_request_issuance"
    /\ exc' = NoExc
    /\ result' = result
    /\ k' = 1
    /\ NoCall
    /\ UNCHANGED << inputs, domains, account_number, dns_provider_type, authz,
                    authorizations, attempts, batch, env >>

\* end of the finally block: the exception in flight is raised, else line 181
FinalizeExit ==
    /\ pc = "finalize_exit"
    /\ IF exc # NoExc
       THEN Raise(exc) /\ k' = k
       ELSE Step("poll_and_request_issuance") /\ k' = 1
    /\ NoCall
    /\ UNCHANGED << inputs, domains, account_number, dns_provider_type, authz,
                    authorizations, attempts, batch, env >>

\* batch, lines 308-313: the failure of finalization or issuance is recorded
ExceptFinalization ==
    /\ pc = "except_finalization"
    /\ NextEntry(Append(certs, Failed(pending[entry].pending_cert)))
    /\ UNCHANGED << inputs, env >>

\* ------------------------------------------------------ request_certificate
PollError == Exc("PollError", "poll_and_request_issuance")

\* the statuses a poll of an authorization reports
Statuses == {"pending", "valid", "invalid"}

PollUnbounded(status) ==
    IF status = "pending"
    THEN /\ k' = k
         /\ attempts' = 0
         /\ Step("poll_and_request_issuance")
    ELSE IF k < Len(authorizations)
    THEN /\ k' = k + 1
         /\ attempts' = 0
         /\ pc' = "poll_and_request_issuance"
         /\ exc' = IF status = "valid" THEN exc ELSE PollError
         /\ result' = result
    ELSE /\ k' = k
         /\ attempts' = 0
         /\ IF status # "valid" \/ exc # NoExc
            THEN Raise(PollError)
            ELSE \/ Step("fetch_chain")
                 \/ Raise(Exc("AcmeError", "poll_and_request_issuance"))

\* one poll of authorization k came back with status (the call is entered
\* with k = 1 and attempts = 0): a pending authorization is polled again
\* until max_attempts polls were made for it, then the next authorization is
\* polled; after the last one PollError is raised if an authorization is
\* invalid or exhausted, else the CSR is submitted
Poll(status) ==
    IF status = "pending" /\ attempts + 1 < max_attempts
    THEN /\ k' = k
         /\ attempts' = attempts + 1
         /\ Step("poll_and_request_issuance")
    ELSE IF k < Len(authorizations)
    THEN /\ k' = k + 1
         /\ attempts' = 0
         /\ pc' = "poll_and_request_issuance"
         /\ exc' = IF status = "valid" THEN exc ELSE PollError
         /\ result' = result
    ELSE /\ k' = k
         /\ attempts' = 0
         /\ IF status # "valid" \/ exc # NoExc
            THEN Raise(PollError)
            ELSE \/ Step("fetch_chain")
                 \/ Raise(Exc("AcmeError", "poll_and_request_issuance"))

\* lines 90-100: acme_client.poll_and_request_issuance(csr, authzrs,
\* mintime=60, max_attempts=10), one poll of the CA per step
PollAndRequestIssuance ==
    /\ pc = "poll_and_request_issuance"
    /\ IF k = 1 /\ attempts = 0 /\ exc = NoExc
       THEN Call("poll_and_request_issuance", 0)
       ELSE NoCall
    /\ \/ \E status \in Statuses : Poll(status)
       \/ /\ Raise(Exc("AcmeError", "poll_and_request_issuance"))
          /\ k' = k
          /\ attempts' = 0
    /\ UNCHANGED << inputs, domains, account_number, dns_provider_type, authz,
                    authorizations, batch, env >>

\* lines 102-113: the chain is fetched and the PEM texts are returned
FetchChain ==
    /\ pc = "fetch_chain"
    /\ \/ Step("build_cert")
       \/ Raise(Exc("AcmeError", "fetch_chain"))
    /\ Call("fetch_chain", 0)
    /\ UNCHANGED << inputs, locals, batch, env >>

\* the entry point builds its outcome: lines 252-257 (single), 299-307
\* (batch), 357 (create_certificate)
BuildCert ==
    /\ pc = "build_cert"
    /\ IF IsBatch
       THEN NextEntry(Append(certs,
                [cert |-> Cert(CurCert), pending_cert |-> pending[entry].pending_cert]))
       ELSE /\ pc' = "done"
            /\ exc' = exc
            /\ result' = IF op = "get_ordered_certificate"
                         THEN Returned(Cert(pending_cert))
                         ELSE Returned([ pem_certificate |-> Pem("pem_certificate"),
                                         pem_certificate_chain |-> Pem("pem_certificate_chain"),
                                         external_id |-> None ])
            /\ NoCall
            /\ UNCHANGED << locals, batch >>
    /\ UNCHANGED << inputs, env >>

\* ---------------------------------------- create_certificate, lines 327-351
\* lines 327-329
DnsProviderCheck ==
    /\ pc = "dns_provider_check"
    /\ IF issuer_options.dns_provider = None
       THEN Raise(Exc("InvalidConfiguration", "dns_provider"))
       ELSE Step("credentials")
    /\ NoCall
    /\ UNCHANGED << inputs, locals, batch, env >>

\* line 330: json.loads(dns_provider.credentials)
LoadCredentials ==
    /\ pc = "credentials"
    /\ IF ~issuer_options.dns_provider.credentials.json
       THEN Raise(Exc("ValueError", "json.loads"))
       ELSE Step("import")
    /\ NoCall
    /\ UNCHANGED << inputs, locals, batch, env >>

\* lines 332-334: the provider module is imported by name
ImportProvider ==
    /\ pc = "import"
    /\ IF issuer_options.dns_provider.provider_type \notin package_modules
       THEN /\ Raise(Exc("ImportError", "__import__"))
            /\ UNCHANGED << dns_provider_type, account_number >>
       ELSE /\ Step("route53_check")
            /\ dns_provider_type' = Str(issuer_options.dns_provider.provider_type)
            /\ account_number' = issuer_options.dns_provider.credentials.account_id
    /\ NoCall
    /\ UNCHANGED << inputs, domains, k, authz, authorizations, batch, env, attempts >>

\* lines 335-338
Route53Check ==
    /\ pc = "route53_check"
    /\ IF issuer_options.dns_provider.provider_type = "route53" /\ ~Truthy(account_number)
       THEN Raise(Exc("InvalidConfiguration", "route53"))
       ELSE Step("domains")
    /\ NoCall
    /\ UNCHANGED << inputs, locals, batch, env >>

\* lines 339-340 and 353
GetDomains ==
    /\ pc = "domains"
    /\ domains' = get_domains(issuer_options)
    /\ IF issuer_options.create_immediately # "True"
       THEN Step("authorization_create")
       ELSE Step("request_domain_challenges")
    /\ NoCall
    /\ UNCHANGED << inputs, account_number, dns_provider_type, k, authz, authorizations,
                    batch, env, attempts >>

\* lines 341-351: the deferred branch
AuthorizationCreate ==
    /\ pc = "authorization_create"
    /\ \/ /\ dns_authorizations' = Append(dns_authorizations,
                 [ account_number |-> account_number,
                   domains |-> authz_domains(domains),
                   provider_type |-> issuer_options.dns_provider.provider_type ])
          /\ pc' = "done"
          /\ exc' = exc
          /\ result' = Returned([ pem_certificate |-> None,
                                  pem_certificate_chain |-> None,
                                  external_id |-> Id(Len(dns_authorizations) + 1) ])
       \/ /\ Raise(Exc("Exception", "authorization_service.create"))
          /\ UNCHANGED dns_authorizations
    /\ Call("authorization_service.create", 0)
    /\ UNCHANGED << inputs, locals, batch, prior, txt_records, resolves >>

\* ------------------------------------------------------------- the caller
\* the caller resolves the same pending certificate again
ResolveAgain ==
    /\ pc = "done"
    /\ op = "get_ordered_certificate"
    /\ resolves < MaxResolves
    /\ resolves' = resolves + 1
    /\ prior' = prior (+) Creations(authorizations)
    /\ calls' = EmptyBag
    /\ pc' = "setup_options"
    /\ exc' = NoExc
    /\ result' = NoResult
    /\ ResetLocals
    /\ UNCHANGED << inputs, batch, txt_records, dns_authorizations >>

Next ==
    \/ SetupOptions
    \/ Directory
    \/ Register
    \/ AgreeToTos
    \/ AuthorizationGet
    \/ DnsProviderGet
    \/ get_dns_provider
    \/ RequestDomainChallenges
    \/ CreateTxtRecord
    \/ GetAuthorizationsReturn
    \/ ExceptOrchestration
    \/ WaitForDnsChange
    \/ SimpleVerify
    \/ AnswerChallenge
    \/ DeleteTxtRecord
    \/ FinalizeExit
    \/ ExceptFinalization
    \/ PollAndRequestIssuance
    \/ FetchChain
    \/ BuildCert
    \/ DnsProviderCheck
    \/ LoadCredentials
    \/ ImportProvider
    \/ Route53Check
    \/ GetDomains
    \/ AuthorizationCreate
    \/ ResolveAgain

Spec == Init /\ [][Next]_vars

\* =================================================================== claims
TryOrigins == {"wait_for_dns_change", "simple_verify", "answer_challenge"}
Range(f) == { f[x] : x \in DOMAIN f }
Records == 1..Len(authorizations)
Deletions(r) == Count("delete_txt_record", CurCert, r)

\* C1: when finalize_authorizations ends, whatever its outcome,
\* delete_txt_record has been invoked exactly once for each of the
\* AuthorizationRecords passed in.
C1_EveryRecordDeletedOnce ==
    pc = "finalize_exit" => \A r \in Records : Deletions(r) = 1

\* C2: when a delete_txt_record of the cleanup phase raised, deletion has
\* still been attempted for every record of the list, the later ones too.
C2_CleanupIsBestEffort ==
    (pc = "finalize_exit" /\ exc.from = "delete_txt_record")
        => \A r \in Records : Deletions(r) >= 1

\* C3: when the verification/submission loop failed, finalize_authorizations
\* ends by raising the error of that loop, also when a deletion of the
\* cleanup failed.
C3_FirstErrorIsRaised ==
    (pc = "finalize_exit" /\ (exc.from \in TryOrigins \/ exc.context \in TryOrigins))
        => exc.from \in TryOrigins

\* ---------------------------------------------------------------- batch
Inputs == 1..Len(pending_certs)
Outcomes(ix) == { j \in 1..Len(certs) : certs[j].pending_cert = ix }
Orchestrated == { pending[e].pending_cert : e \in 1..Len(pending) }
BatchDone == IsBatch /\ pc = "done"

\* C4: in get_ordered_certificates, when the batch has returned, every pending
\* certificate that was orchestrated successfully has been taken by the
\* finalize/issuance loop and has exactly one outcome, whichever other
\* pending certificates failed their orchestration.
C4_BatchIsolation ==
    BatchDone =>
        /\ pending # <<>> => entry = Len(pending)
        /\ \A ix \in Orchestrated : Cardinality(Outcomes(ix)) = 1
        /\ \A ix \in Inputs \ Orchestrated :
              \A j \in Outcomes(ix) : certs[j] = Failed(ix)

\* C4, its case: the first pending certificate failed its orchestration and
\* the second one was orchestrated, finalized and issued.
C4_Witness ==
    /\ BatchDone
    /\ Len(pending_certs) = 2
    /\ Orchestrated = {2}
    /\ certs = << Failed(1), [cert |-> Cert(2), pending_cert |-> 2] >>

\* C5: get_ordered_certificates returns a list with exactly one outcome per
\* input pending certificate; a failed one is {cert: False, pending_cert}, an
\* issued one carries a cert whose external_id is that of its pending_cert.
C5_OneOutcomePerInput ==
    BatchDone =>
        /\ result = Returned(certs)
        /\ Len(certs) = Len(pending_certs)
        /\ \A ix \in Inputs : Cardinality(Outcomes(ix)) = 1
        /\ \A j \in 1..Len(certs) :
              \/ certs[j].cert = False
              \/ certs[j].cert.external_id
                    = StrOfId(pending_certs[certs[j].pending_cert].external_id)

\* C5, its case: both pending certificates were orchestrated, the first one
\* failed in its finalization and the second one was issued.
C5_Witness ==
    /\ BatchDone
    /\ Len(pending) = 2
    /\ certs = << Failed(1), [cert |-> Cert(2), pending_cert |-> 2] >>

\* C10: a propagation wait that never completes does not hang the batch: the
\* batch has returned or can take a step.
C10_BatchNeverHangs ==
    IsBatch => (pc = "done" \/ ENABLED Next)

\* ----------------------------------------------------- create_certificate
IsCreate == op = "create_certificate"
Done == pc = "done"
SetupCalls ==
    { Event(fn, 1, 0) : fn \in {"directory", "register", "agree_to_tos"} }
Route53Misconfigured == Raised(Exc("InvalidConfiguration", "route53"))

\* create_certificate is called with a route53 provider whose credentials
\* parse and give no (or an empty) account_id
Route53NoAccount ==
    /\ IsCreate
    /\ issuer_options.dns_provider # None
    /\ issuer_options.dns_provider.provider_type = "route53"
    /\ issuer_options.dns_provider.credentials.json
    /\ issuer_options.dns_provider.credentials.account_id \in {None, Str("")}

\* C6 as stated: the route53 misconfiguration error is raised before any call
\* to the DNS provider or to the ACME CA has occurred.
C6_NoCallBeforeRoute53Error ==
    (Route53NoAccount /\ Done /\ result = Route53Misconfigured)
        => calls = EmptyBag

\* C6 as amended: with a route53 provider without account_id the call never
\* returns a value and makes no call but those of setup_acme_client; it raises
\* an error of setup_acme_client or else the route53 misconfiguration error,
\* and this one only after the directory contact, the registration and the
\* terms agreement have each been made once.
C6_Route53ErrorAfterSetup ==
    Route53NoAccount =>
        /\ BagToSet(calls) \subseteq SetupCalls
        /\ txt_records = {}
        /\ dns_authorizations = <<>>
        /\ Done =>
              /\ result.kind = "raised"
              /\ result.exc.from \in {"setup_acme_client", "directory", "register",
                                      "agree_to_tos", "route53"}
              /\ result.exc.from = "route53" =>
                    /\ result = Route53Misconfigured
                    /\ \A ev \in SetupCalls : CopiesIn(ev, calls) = 1

\* C6, its case: the route53 error has been raised, the account id being the
\* empty string, after the session with the CA was set up.
C6_Witness ==
    /\ Route53NoAccount
    /\ issuer_options.dns_provider.credentials.account_id = Str("")
    /\ Done
    /\ result = Route53Misconfigured
    /\ CopiesIn(Event("agree_to_tos", 1, 0), calls) = 1

Deferred == IsCreate /\ issuer_options.create_immediately # "True"

\* the domain list the deferred branch is to store: the common name, then the
\* values of the subject alternative names, in order
FlattenedDomains ==
    << issuer_options.common_name >> \o
    ( IF issuer_options.extensions = None THEN <<>>
      ELSE [ x \in 1..Len(issuer_options.extensions.sub_alt_names) |->
                Str(issuer_options.extensions.sub_alt_names[x].value) ] )

\* C7: with create_immediately false or absent, create_certificate requests
\* no challenge, creates no TXT record and submits no CSR; when it returns, it
\* returns (None, None, authorizationID) and has called the authorization
\* service's create exactly once, with the account number, the flattened
\* domain list and the provider type; it raises only when its configuration
\* is invalid or a call of the session setup or of create fails.
C7_DeferredOnlyTracks ==
    Deferred =>
        /\ BagToSet(calls) \subseteq
              SetupCalls \cup {Event("authorization_service.create", 1, 0)}
        /\ txt_records = {}
        /\ Len(dns_authorizations) <= 1
        /\ (Done /\ result.kind = "returned") =>
              /\ result.value = [ pem_certificate |-> None,
                                  pem_certificate_chain |-> None,
                                  external_id |-> Id(1) ]
              /\ CopiesIn(Event("authorization_service.create", 1, 0), calls) = 1
              /\ dns_authorizations =
                    << [ account_number |->
                            issuer_options.dns_provider.credentials.account_id,
                         domains |-> FlattenedDomains,
                         provider_type |-> issuer_options.dns_provider.provider_type ] >>
        /\ (Done /\ result.kind = "raised") =>
              /\ dns_authorizations = <<>>
              /\ result.exc.from \in
                    {"setup_acme_client", "dns_provider", "json.loads", "__import__",
                     "route53", "directory", "register", "agree_to_tos",
                     "authorization_service.create"}

\* C7, its case: the deferred call has returned for a common name with a
\* subject alternative name.
C7_Witness ==
    /\ Deferred
    /\ Done
    /\ result.kind = "returned"
    /\ issuer_options.extensions # None
    /\ Len(issuer_options.extensions.sub_alt_names) = 1
    /\ Len(dns_authorizations) = 1

\* ------------------------------------------------- get_ordered_certificate
IsSingle == op = "get_ordered_certificate"
DnsOrigins == {"create_txt_record", "wait_for_dns_change", "delete_txt_record"}

Creates(d) == Count("create_txt_record", CurCert, d)
Created(d) == IF d \in Records THEN 1 ELSE 0
CreatedBefore(d) == CopiesIn(Event("create_txt_record", 1, d), prior)

\* C9 as stated: over all the resolutions of a pending certificate, the TXT
\* record of a domain is created at most once.
C9_NoDuplicateCreation ==
    IsSingle => \A d \in 1..MaxListed : CreatedBefore(d) + Created(d) <= 1

\* C9 as amended: within one resolution create_txt_record is invoked at most
\* once per domain and exactly once per AuthorizationRecord; every further
\* resolution orchestrates again, so that over n resolutions up to n TXT
\* records are created per domain.
C9_OncePerDomainPerResolution ==
    /\ \A d \in 1..MaxListed : Creates(d) <= 1
    /\ pc \in OrchestrationPcs => \A r \in Records : Creates(r) = 1
    /\ IsSingle => \A d \in 1..MaxListed : CreatedBefore(d) + Created(d) <= resolves

\* C9, its case: the second resolution of the pending certificate has created
\* the TXT record of the first domain again.
C9_Witness ==
    /\ IsSingle
    /\ resolves = 2
    /\ CreatedBefore(1) = 1
    /\ Creates(1) = 1
    /\ Created(1) = 1

\* ------------------------------------------- create_certificate, immediate
Immediate == IsCreate /\ issuer_options.create_immediately = "True"

\* the number of domains of the request: the common name and each subject
\* alternative name
NumDomains ==
    1 + ( IF issuer_options.extensions = None THEN 0
          ELSE Len(issuer_options.extensions.sub_alt_names) )

PemResult ==
    [ pem_certificate |-> Pem("pem_certificate"),
      pem_certificate_chain |-> Pem("pem_certificate_chain"),
      external_id |-> None ]

\* C11: create_certificate with create_immediately true and n domains, when
\* no step fails, returns (certificate PEM, chain PEM, None) after exactly n
\* challenge requests, n TXT record creations, n answers and n TXT record
\* deletions (none is left), one CSR submission made after the deletions, and
\* no authorization-tracking record.
C11_ImmediatePipeline ==
    Immediate =>
        /\ dns_authorizations = <<>>
        /\ Count("authorization_service.create", 1, 0) = 0
        /\ Count("poll_and_request_issuance", 1, 0) = 1 =>
              \A d \in 1..NumDomains : Count("delete_txt_record", 1, d) = 1
        /\ (Done /\ result.kind = "returned") =>
              /\ result.value = PemResult
              /\ Len(authorizations) = NumDomains
              /\ \A d \in 1..MaxListed :
                    \A fn \in {"request_domain_challenges", "create_txt_record",
                                "wait_for_dns_change", "answer_challenge",
                                "delete_txt_record"} :
                        Count(fn, 1, d) = IF d <= NumDomains THEN 1 ELSE 0
              /\ txt_records = {}
              /\ Count("poll_and_request_issuance", 1, 0) = 1
              /\ Count("fetch_chain", 1, 0) = 1

\* C11, its case: the immediate call has returned the certificate for a
\* common name with two subject alternative names.
C11_Witness ==
    /\ Immediate
    /\ Done
    /\ result = Returned(PemResult)
    /\ NumDomains = 3
    /\ Len(authorizations) = 3

\* ------------------------------------------------------ start_dns_challenge
\* positions of the offered combinations that are one DNS-01 challenge
Dns01Offers == { i \in 1..Len(authz) : Len(authz[i]) = 1 /\ authz[i][1] = "dns-01" }

\* the domain the CA was last asked about for the running request
LastRequested ==
    CHOOSE d \in 0..MaxListed :
        /\ d > 0 => Count("request_domain_challenges", CurCert, d) >= 1
        /\ \A e \in (d + 1)..MaxListed : Count("request_domain_challenges", CurCert, e) = 0

\* the exception that ended the running request, if any
Failure == IF result.kind = "raised" THEN result.exc ELSE exc

\* start_dns_challenge, with one of the DNS providers, has gone past line 55
\* for the CA response held in authz
Selected ==
    /\ authz # <<>>
    /\ dns_provider_type.value \in provider_types
    /\ pc # "create_txt_record"
    /\ LastRequested > 0
    /\ Failure.from # "request_domain_challenges"

\* C12: when the CA response for a domain offers exactly one combination that
\* is a single DNS-01 challenge, create_txt_record is called once for the
\* domain and the AuthorizationRecord holds that challenge; when it offers
\* none or several, the request fails at the selection, create_txt_record is
\* not called for the domain and no TXT record and no AuthorizationRecord
\* exist for it.
C12_ChallengeSelection ==
    Selected =>
        IF Cardinality(Dns01Offers) = 1
        THEN /\ Count("create_txt_record", CurCert, LastRequested) = 1
             /\ Failure.from # "find_dns_challenge"
             /\ LastRequested <= Len(authorizations) =>
                   authorizations[LastRequested].dns_challenge
                       = authz[CHOOSE i \in Dns01Offers : TRUE]
        ELSE /\ Count("create_txt_record", CurCert, LastRequested) = 0
             /\ Failure = Exc("ValueError", "find_dns_challenge")
             /\ Len(authorizations) = LastRequested - 1
             /\ << resolves, CurCert, LastRequested >> \notin txt_records

\* C12, its case: of two offered combinations the second one is the DNS-01
\* challenge, and the record of the domain has been created with it.
C12_Witness ==
    /\ Selected
    /\ authz = << <<"http-01">>, <<"dns-01">> >>
    /\ Len(authorizations) = LastRequested
    /\ authorizations[LastRequested].dns_challenge = <<"dns-01">>

\* -------------------------------------------------------------- get_domains
\* create_certificate has called get_domains (line 339)
DomainsFetched == IsCreate /\ domains # <<>>

\* C13: get_domains returns the common name followed by the subject
\* alternative names in their input order, and the common name alone when no
\* extensions are given: nothing is added, dropped, merged or reordered.
C13_DomainsInInputOrder ==
    DomainsFetched =>
        /\ Len(domains) = NumDomains
        /\ domains[1] = issuer_options.common_name
        /\ \A x \in 2..Len(domains) :
              domains[x] = issuer_options.extensions.sub_alt_names[x - 1]

\* C13, its case: two different subject alternative names, the second one
\* naming the host of the common name again.
C13_Witness ==
    /\ DomainsFetched
    /\ issuer_options.common_name = Str(1)
    /\ issuer_options.extensions # None
    /\ issuer_options.extensions.sub_alt_names = << GeneralName(2), GeneralName(1) >>
    /\ domains = << Str(1), GeneralName(2), GeneralName(1) >>

\* -------------------------------------------------------- setup_acme_client
InvalidAuthority == Exc("InvalidAuthority", "setup_acme_client")

\* setup_acme_client has gone past the reading of the options (line 125) for
\* the running request
OptionsReadPcs ==
    (OrchestrationPcs \ {"setup_options"}) \cup CreatePcs \cup {"except_orchestration"}

OptionsRead ==
    \/ pc \in OptionsReadPcs
    \/ ~IsBatch /\ pc = "done"

UnknownProvider == Exc("UnknownProvider", "get_dns_provider")

\* the running request has resolved its provider type: get_dns_provider has
\* returned or raised (lines 241, 267), or the import of line 333 has
ProviderResolved ==
    \/ dns_provider_type # None /\ pc # "get_dns_provider"
    \/ IsCreate /\ Failure.from = "__import__"

RequestedType ==
    IF IsCreate THEN issuer_options.dns_provider.provider_type
    ELSE dns_provider_type.value

\* C15: on every entry point the resolution of a provider type other than
\* cloudflare, dyn and route53 fails with UnknownProvider, and no TXT record
\* is created for the request.
C15_UnknownProviderIsFatal ==
    (ProviderResolved /\ RequestedType \notin provider_types) =>
        /\ Failure = UnknownProvider
        /\ \A d \in 1..MaxListed : Creates(d) = 0

\* ------------------------------------------------------ batch, two phases
\* the batch is in its second loop (lines 285-313)
SecondPhase == IsBatch /\ pc \in SecondLoopPcs

FirstLoopPcs == OrchestrationPcs \cup {"except_orchestration"}
FirstPhase == IsBatch /\ pc \in FirstLoopPcs

SecondPhaseCalls ==
    {"wait_for_dns_change", "simple_verify", "answer_challenge", "delete_txt_record",
     "poll_and_request_issuance", "fetch_chain"}

\* C16: in get_ordered_certificates, whenever a propagation wait, an answer,
\* a TXT deletion or a CSR submission is at hand or has been made, every
\* pending certificate of the input has finished its orchestration (it is in
\* pending or has its failure recorded); and while a pending certificate is
\* being orchestrated none of these calls has been made: every TXT record of
\* an orchestrated entry is still present and no outcome but failures of the
\* orchestration is recorded.
C16_TwoPhases ==
    /\ SecondPhase =>
          /\ pending_cert = Len(pending_certs)
          /\ \A ix \in Inputs : ix \in Orchestrated \/ Failed(ix) \in Range(certs)
    /\ FirstPhase =>
          /\ \A ev \in BagToSet(calls) : ev.fn \notin SecondPhaseCalls
          /\ \A e \in 1..Len(pending) : \A r \in 1..Len(pending[e].authorizations) :
                pending[e].authorizations[r].change_id \in txt_records
          /\ \A j \in 1..Len(certs) :
                certs[j] = Failed(certs[j].pending_cert)
                /\ certs[j].pending_cert \notin Orchestrated

\* C16, its case: both pending certificates have been orchestrated and the
\* first propagation wait is at hand.
C16_Witness ==
    /\ SecondPhase
    /\ pc = "wait_for_dns_change"
    /\ Len(pending) = 2
    /\ entry = 1
    /\ Count("wait_for_dns_change", CurCert, 1) = 0
    /\ certs = <<>>

\* ---------------------------------------------------- complete_dns_challenge
Waits(r) == Count("wait_for_dns_change", CurCert, r)
Verifications(r) == Count("simple_verify", CurCert, r)
Answers(r) == Count("answer_challenge", CurCert, r)

\* the loop of lines 169-170 ended with the exception of step fn
LoopFailedAt(fn) == Failure.from = fn \/ Failure.context = fn

\* the last record complete_dns_challenge was called for
LastCompleted ==
    CHOOSE r \in 0..MaxListed :
        /\ r > 0 => Waits(r) >= 1
        /\ \A q \in (r + 1)..MaxListed : Waits(q) = 0

\* the positions after the loop of lines 169-170
AnsweredPcs == {"delete_txt_record", "finalize_exit"} \cup RequestPcs

\* C17: for the records of a request, the propagation wait, the local
\* verification and the answer are each made at most once and in this order;
\* a record is waited on only after the records before it were answered; a
\* record whose wait or verification failed is never answered, and no record
\* after it is waited on, verified or answered.
C17_RecordStateMachine ==
    /\ pc \in FirstLoopPcs \cup CreatePcs => \A r \in 1..MaxListed : Waits(r) = 0
    /\ pc \in SecondLoopPcs \cup {"done"} =>
          \A r \in 1..MaxListed :
              LET waits == Waits(r)
                  verifications == Verifications(r)
                  answers == Answers(r)
              IN  /\ waits <= 1
                  /\ verifications <= waits
                  /\ answers <= verifications
                  /\ waits = 1 => r \in Records
                  /\ (waits = 1 /\ r > 1) => Answers(r - 1) = 1
    /\ LoopFailedAt("simple_verify") =>
          /\ Verifications(LastCompleted) = 1
          /\ Answers(LastCompleted) = 0
    /\ LoopFailedAt("wait_for_dns_change") =>
          /\ Verifications(LastCompleted) = 0
          /\ Answers(LastCompleted) = 0
    /\ (pc \in AnsweredPcs /\ exc = NoExc) => \A r \in Records : Answers(r) = 1

\* C17, its case: of three records the first one was answered, the second
\* one failed its local verification, and the third one is left alone.
C17_Witness ==
    /\ Len(authorizations) = 3
    /\ LoopFailedAt("simple_verify")
    /\ Answers(1) = 1
    /\ Verifications(2) = 1
    /\ Answers(2) = 0
    /\ Waits(3) = 0

\* --------------------------------------------------------- get_authorizations
\* get_authorizations was left by an exception at domain LastRequested
OrchestrationFailed ==
    /\ pc \in {"done", "except_orchestration"}
    /\ LastRequested > 0
    /\ Len(authorizations) < Len(domains)

\* the records of list a are those of the domains ds, in order
InOrder(a, ds) ==
    /\ Len(a) <= Len(ds)
    /\ \A r \in 1..Len(a) : a[r].host = ds[r] /\ a[r].authz = << CurCert, r >>

\* what holds in every state for C18
C18_State ==
    /\ pc \in GetAuthorizationsPcs => InOrder(authorizations, domains)
    /\ pc = "get_authorizations_return" => Len(authorizations) = Len(domains)
    /\ (~IsBatch /\ pc \in FinalizePcs) => Len(authorizations) = Len(domains)
    /\ OrchestrationFailed =>
          /\ LastRequested = Len(authorizations) + 1
          /\ \A d \in (LastRequested + 1)..MaxListed :
                /\ Count("request_domain_challenges", CurCert, d) = 0
                /\ Creates(d) = 0
          /\ \A r \in Records :
                /\ authorizations[r].change_id \in txt_records
                /\ Deletions(r) = 0

\* a TXT record disappears only in the cleanup of finalize_authorizations, as
\* the record at hand of the list being finalized; in the batch this list is
\* one of pending
C18_Step ==
    \A t \in txt_records \ txt_records' :
        /\ pc = "delete_txt_record"
        /\ t = authorizations[k].change_id
        /\ IsBatch => t[2] \in Orchestrated

\* C18: get_authorizations returns one AuthorizationRecord per domain, in the
\* order of the domains; when the CA or the DNS provider fails at domain k, no
\* later domain is processed and the TXT records created for the domains
\* before k are not deleted, neither then nor in any later step of
\* get_ordered_certificate or get_ordered_certificates.
C18_FailedOrchestrationLeavesRecords ==
    [](C18_State) /\ [][C18_Step]_vars

\* C18, its case: the batch has returned; the first pending certificate
\* failed its orchestration at its second domain and the TXT record of its
\* first domain is still there.
C18_Witness ==
    /\ BatchDone
    /\ 1 \notin Orchestrated
    /\ Failed(1) \in Range(certs)
    /\ << 1, 1, 1 >> \in txt_records

\* ------------------------------------------------------------------ retries
PerDomainCalls ==
    {"request_domain_challenges", "create_txt_record", "wait_for_dns_change",
     "simple_verify", "answer_challenge", "delete_txt_record"}

PerRequestCalls ==
    {"directory", "register", "agree_to_tos", "authorization_service.get",
     "dns_provider_service.get", "authorization_service.create",
     "poll_and_request_issuance", "fetch_chain"}

Polling == pc = "poll_and_request_issuance"

\* what holds in every state for C19
C19_State ==
    /\ \A fn \in PerDomainCalls : \A d \in 1..MaxListed : Count(fn, CurCert, d) <= 1
    /\ \A fn \in PerRequestCalls : Count(fn, CurCert, 0) <= 1
    /\ attempts < max_attempts
    /\ attempts > 0 => Polling
    /\ Polling => k \in Records
    /\ Failure.from = "poll_and_request_issuance" => Failure.type \in {"PollError", "AcmeError"}

\* a poll that does not end the call polls the same authorization once more
\* or passes to the next one, and the poll that is the tenth of the last
\* authorization ends the call
C19_Step ==
    Polling =>
        /\ Polling' =>
              \/ k' = k /\ attempts' = attempts + 1
              \/ k' = k + 1 /\ attempts' = 0
        /\ (k = Len(authorizations) /\ attempts = max_attempts - 1) => ~Polling'

IssuanceRequested ==
    \/ pc \in RequestPcs
    \/ Count("poll_and_request_issuance", CurCert, 0) >= 1
    \/ Count("fetch_chain", CurCert, 0) >= 1

FinalizationOrigins == TryOrigins \cup {"delete_txt_record"}

\* C20: on every entry point request_certificate is called for a request
\* only when each of its AuthorizationRecords (there is one at least) has
\* been waited for, verified and answered and its TXT record deleted; once a
\* step of the finalization or of the cleanup has failed, no issuance request
\* is made for the request.
C20_IssuanceOnlyAfterFinalization ==
    /\ IssuanceRequested =>
          /\ authorizations # <<>>
          /\ \A r \in Records :
                /\ Waits(r) = 1 /\ Verifications(r) = 1 /\ Answers(r) = 1
                /\ Deletions(r) = 1
                /\ authorizations[r].change_id \notin txt_records
          /\ Failure.from \notin FinalizationOrigins
          /\ Failure.context \notin FinalizationOrigins
    /\ (Failure.from \in FinalizationOrigins \/ pc = "hung") => ~IssuanceRequested

\* C20, its case: in the batch the CSR of the second entry, which has two
\* records, has been submitted and its chain is being fetched.
C20_Witness ==
    /\ IsBatch
    /\ entry = 2
    /\ pc = "fetch_chain"
    /\ Len(authorizations) = 2
    /\ Count("poll_and_request_issuance", CurCert, 0) = 1

====
